---- MODULE Spec2Model ----
(***************************************************************************)
(* Model of the DeepSource VS Code extension (src/src/extension.ts, the    *)
(* first module of the file, lines 1-226): the occurrence-to-diagnostic    *)
(* translator, the "Get analysis report" command with its three branches,  *)
(* the asynchronous repository resolution started at activation, and the  *)
(* active-editor handler that repaints the diagnostic collection.         *)
(*                                                                         *)
(* One action is one task of the extension host's event loop: a handler    *)
(* runs from the event that starts it up to its next suspension on a       *)
(* remote call or on the input box, together with the promise reactions    *)
(* that follow from it.                                                    *)
(***************************************************************************)
EXTENDS Integers, Sequences, FiniteSets, TLC

(***************************************************************************)
(* Bounds.                                                                 *)
(***************************************************************************)
\* Number of "Get analysis report" invocations in one session.
MaxInvocations == 2
\* Longest occurrence list handed to the translator on its own.
MaxOcc == 2

(***************************************************************************)
(* Values.                                                                 *)
(***************************************************************************)
\* `undefined`: an unset module variable, a missing cache key, a cancelled
\* input box.
Undefined == "<undefined>"
\* Personal access tokens a user may type.
Tokens == {"patA", "patB"}
\* What showInputBox resolves to: a token, the empty string, or undefined.
PromptResults == Tokens \cup {"", Undefined}

\* Paths are sequences of segments.  workspaceFolders[0].uri.path
workspaceDirPath == <<"repo">>

\* Files an editor can show (document.uri.fsPath).
EditorFiles == {<<"repo", "a.py">>, <<"repo", "b.py">>, <<"repo", "c.py">>}

(***************************************************************************)
(* path.join: concatenates the segments and normalises the result ("."     *)
(* segments vanish, ".." removes the segment before it).                   *)
(***************************************************************************)
RECURSIVE Normalize(_)
Normalize(p) ==
  IF p = <<>> THEN <<>>
  ELSE LET front == Normalize(SubSeq(p, 1, Len(p) - 1))
           last  == p[Len(p)]
       IN  IF last = "." THEN front
           ELSE IF last = ".."
                THEN (IF front = <<>> THEN <<>> ELSE SubSeq(front, 1, Len(front) - 1))
                ELSE Append(front, last)

PathJoin(dir, rel) == Normalize(dir \o rel)

(***************************************************************************)
(* Occurrences as the analysis service reports them: one-based lines,      *)
(* columns that may be 0, the begin position not after the end position.   *)
(***************************************************************************)
Occ(p, bl, bc, el, ec, t) ==
  [path |-> p, beginLine |-> bl, beginColumn |-> bc,
   endLine |-> el, endColumn |-> ec, issue |-> [title |-> t]]

SampleOccurrences ==
  { Occ(<<"a.py">>,      5, 3, 5, 10, "Unused import"),
    Occ(<<"a.py">>,      1, 0, 1, 0,  "Missing docstring"),
    Occ(<<".", "a.py">>, 2, 1, 3, 1,  "Unused variable"),
    Occ(<<"b.py">>,      7, 0, 7, 4,  "Unused import"),
    Occ(<<"b.py">>,      2, 2, 2, 2,  "Bare except"),
    Occ(<<"src", "..", "b.py">>, 4, 1, 9, 0, "Dangerous default") }

RECURSIVE SeqsUpTo(_, _)
SeqsUpTo(S, n) ==
  IF n = 0 THEN {<<>>}
  ELSE LET shorter == SeqsUpTo(S, n - 1)
       IN  shorter \cup {Append(s, x) : s \in shorter, x \in S}

OccurrenceLists == SeqsUpTo(SampleOccurrences, MaxOcc)

(***************************************************************************)
(* vscode.Position, vscode.Range, vscode.Diagnostic.  A Range keeps its    *)
(* two positions in order: when start is after end they are swapped.       *)
(***************************************************************************)
Position(line, character) == [line |-> line, character |-> character]

IsBefore(a, b) ==
  \/ a.line < b.line
  \/ a.line = b.line /\ a.character < b.character

Range(startPos, endPos) ==
  IF IsBefore(endPos, startPos)
  THEN [start |-> endPos, end |-> startPos]
  ELSE [start |-> startPos, end |-> endPos]

Diagnostic(range, message, severity) ==
  [range |-> range, message |-> message, severity |-> severity]

(***************************************************************************)
(* DiagnosticMap = Map<string, vscode.Diagnostic[]>: a function from the   *)
(* set of its keys.                                                        *)
(***************************************************************************)
EmptyMap == [k \in {} |-> <<>>]

MapHas(m, k) == k \in DOMAIN m

MapSet(m, k, v) == [x \in (DOMAIN m) \cup {k} |-> IF x = k THEN v ELSE m[x]]

MapDelete(m, k) == [x \in (DOMAIN m) \ {k} |-> m[x]]

(***************************************************************************)
(* The translator, prepareDiagnostics.                                     *)
(***************************************************************************)
\* occurrences.forEach(o => o.path = path.join(workspaceDirPath, o.path)):
\* the list the caller passed, with every path rewritten in place.
RewritePaths(dir, occurrences) ==
  [i \in 1..Len(occurrences) |->
     [occurrences[i] EXCEPT !.path = PathJoin(dir, occurrences[i].path)]]

\* Variant for C9: the begin column is decremented whatever its value.
ToDiagnosticShifted(occurrence) ==
  LET startPos == Position(occurrence.beginLine - 1, occurrence.beginColumn - 1)
      endPos   == Position(occurrence.endLine - 1, occurrence.endColumn)
  IN  Diagnostic(Range(startPos, endPos), occurrence.issue.title, "Error")

\* The body of the loop up to the construction of the diagnostic.
ToDiagnostic(occurrence) ==
  LET beginCol == IF occurrence.beginColumn > 0
                  THEN occurrence.beginColumn - 1
                  ELSE occurrence.beginColumn
      startPos == Position(occurrence.beginLine - 1, beginCol)
      endPos   == Position(occurrence.endLine - 1, occurrence.endColumn)
  IN  Diagnostic(Range(startPos, endPos), occurrence.issue.title, "Error")

\* Variant for C10: the entry is set anew for every occurrence.
AddDiagnosticOverwriting(diagnosticMap, filePath, diagnostic) ==
  MapSet(diagnosticMap, filePath, <<diagnostic>>)

\* if (diagnosticMap.has(filePath)) push else set(filePath, [diagnostic])
AddDiagnostic(diagnosticMap, filePath, diagnostic) ==
  IF MapHas(diagnosticMap, filePath)
  THEN MapSet(diagnosticMap, filePath, Append(diagnosticMap[filePath], diagnostic))
  ELSE MapSet(diagnosticMap, filePath, <<diagnostic>>)

\* The map after the loop has visited the first n occurrences.
RECURSIVE DiagnosticsOfFirst(_, _)
DiagnosticsOfFirst(occurrences, n) ==
  IF n = 0 THEN EmptyMap
  ELSE AddDiagnostic(DiagnosticsOfFirst(occurrences, n - 1),
                     occurrences[n].path, ToDiagnostic(occurrences[n]))

\* map: the value returned; occurrences: the caller's list afterwards;
\* json: what writeFileSync leaves in .deepsource/issues.json.
prepareDiagnostics(dir, occurrences) ==
  LET rewritten == RewritePaths(dir, occurrences)
  IN  [map         |-> DiagnosticsOfFirst(rewritten, Len(rewritten)),
       occurrences |-> rewritten,
       json        |-> rewritten]

(***************************************************************************)
(* The repository identity resolver, getRepoAndUserName.  A remote URL is  *)
(* a sequence of characters; a name is the sequence of characters the      *)
(* regular expression captured.                                            *)
(***************************************************************************)
\* The characters of [\w-] that the modelled URLs use.
WordChars == {"h", "u", "r", "g", "i", "t", "x", "_", "-"}

\* An unset userName / repoName.  [\w-]+ never captures an empty name, so the
\* empty sequence stands for the one falsy value these variables take.
UndefinedName == <<>>

\* The first index from i on that does not hold a character of [\w-].
RECURSIVE WordRunEnd(_, _)
WordRunEnd(url, i) ==
  IF i > Len(url) \/ url[i] \notin WordChars THEN i ELSE WordRunEnd(url, i + 1)

\* /([\w-]+)\/([\w-]+)\.git/ matched with its first group starting at s.
MatchesAt(url, s) ==
  LET k == WordRunEnd(url, s)
      m == WordRunEnd(url, k + 1)
  IN  /\ k > s
      /\ k <= Len(url) /\ url[k] = "/"
      /\ m > k + 1
      /\ m + 3 <= Len(url)
      /\ SubSeq(url, m, m + 3) = <<".", "g", "i", "t">>

\* remoteUrl.match(regex): the leftmost match, or no match.
RegexMatch(url) ==
  LET starts == {s \in 1..Len(url) : MatchesAt(url, s)}
  IN  IF starts = {} THEN [found |-> FALSE, userName |-> UndefinedName,
                           repoName |-> UndefinedName]
      ELSE LET s == CHOOSE x \in starts : \A y \in starts : x <= y
               k == WordRunEnd(url, s)
               m == WordRunEnd(url, k + 1)
           IN  [found |-> TRUE, userName |-> SubSeq(url, s, k - 1),
                repoName |-> SubSeq(url, k + 1, m - 1)]

\* null in place of a RepoInfo.
NoRepoInfo == [found |-> FALSE, userName |-> UndefinedName, repoName |-> UndefinedName]

\* What git reports for the workspace: whether it is a repository, whether
\* remote.origin.url is configured, and its value.
GitConfig(isRepo, hasOrigin, value) ==
  [isRepo |-> isRepo, hasOrigin |-> hasOrigin, value |-> value]

GitConfigs ==
  { GitConfig(FALSE, FALSE, <<>>),
    GitConfig(TRUE, FALSE, <<>>),
    GitConfig(TRUE, TRUE, <<"h", "/", "u", "/", "r", ".", "g", "i", "t">>),
    GitConfig(TRUE, TRUE, <<"h", "/", "u", "/", "r">>) }

\* found = FALSE is the null result.
getRepoAndUserName(git) ==
  IF ~git.isRepo THEN [found |-> FALSE, userName |-> UndefinedName,
                       repoName |-> UndefinedName]
  ELSE IF ~git.hasOrigin THEN [found |-> FALSE, userName |-> UndefinedName,
                               repoName |-> UndefinedName]
  ELSE RegexMatch(git.value)

(***************************************************************************)
(* State.                                                                  *)
(***************************************************************************)
VARIABLES
  workspaceOpen,        \* whether workspaceFolders[0] exists (workspaceDirPath set)
  priorCache,           \* history: the cache as the earlier session left it
  session,              \* "starting", "active", or "failed" when activate threw
  resolution,           \* the promise of getRepoAndUserName: "none", "pending",
                        \* "done", "rejected"
  deepSource,           \* the client handle: the token it was built from, or Undefined
  userName,             \* module variable userName
  repoName,             \* module variable repoName
  cache,                \* the VSCodeCache: key -> value
  diagnosticsInFile,    \* module variable diagnosticsInFile
  diagnosticCollection, \* the "deepsource" diagnostic collection: file -> diagnostics
  issuesJson,           \* .deepsource/issues.json
  calls,                \* the invocations of extension.getAnalysisReport
  lastFetched,          \* history: the list received by the latest successful fetch
  lastWriter,           \* history: the invocation that fetch belonged to, 0 for none
  lastEditor,           \* history: the editor of the latest active-editor event
  unhandled,            \* the promises that were rejected with no handler attached
  trInput,              \* translator on its own: the list as first passed
  trOccurrences,        \* translator on its own: the caller's list object
  trMaps,               \* translator on its own: the maps returned so far
  rsGit,                \* resolver on its own: what git reports
  rsInfo,               \* resolver on its own: the value returned
  rsDone                \* resolver on its own: whether it has returned

vars == <<workspaceOpen, priorCache, unhandled, session, resolution, deepSource, userName, repoName,
          cache, diagnosticsInFile, diagnosticCollection, issuesJson, calls,
          lastFetched, lastWriter, lastEditor, trInput, trOccurrences, trMaps,
          rsGit, rsInfo, rsDone>>

sessionVars == <<workspaceOpen, priorCache, unhandled, session, resolution, deepSource, userName,
                 repoName, cache, diagnosticsInFile, diagnosticCollection,
                 issuesJson, calls, lastFetched, lastWriter, lastEditor>>

translatorVars == <<trInput, trOccurrences, trMaps>>

resolverVars == <<rsGit, rsInfo, rsDone>>

PatKey == "personal-access-token"

Invocations == 1..MaxInvocations

\* An invocation that has not happened yet.
\* pc: where the invocation stands; via: the branch it took; pat: the token
\* typed at its prompt; client: the token of the handle its remote call was
\* made on; success: what calculateDiagnostics resolved to; shown: the
\* notifications it produced.
NoCall == [pc |-> "idle", via |-> Undefined, pat |-> Undefined,
           client |-> Undefined, success |-> Undefined, shown |-> {}]

NoFile == [written |-> FALSE, content |-> <<>>]

(***************************************************************************)
(* Notifications (showErrorMessage, showInformationMessage).               *)
(***************************************************************************)
Notice(severity, text, repo, account) ==
  [severity |-> severity, text |-> text, repoName |-> repo, userName |-> account]

UnableToFetchError(repo, account) ==
  Notice("error", "Unable to fetch data for repository", repo, account)

IncorrectTokenError ==
  Notice("error", "Incorrect personal access token.", UndefinedName, UndefinedName)

SuccessInfo ==
  Notice("info", "Successfully fetched issues from deepsource.io",
         UndefinedName, UndefinedName)

(***************************************************************************)
(* What deepSource.getAllIssuesInRepo resolves to: no data, or a list.     *)
(***************************************************************************)
NoData == [data |-> FALSE, occurrences |-> <<>>]

Issues(occurrences) == [data |-> TRUE, occurrences |-> occurrences]

AnalysisReports ==
  { NoData,
    Issues(<<>>),
    Issues(<<Occ(<<"a.py">>, 5, 3, 5, 10, "Unused import")>>),
    Issues(<<Occ(<<"b.py">>, 7, 0, 7, 4, "Unused import"),
             Occ(<<"a.py">>, 1, 0, 1, 0, "Missing docstring"),
             Occ(<<".", "b.py">>, 2, 2, 2, 2, "Bare except")>>) }

(***************************************************************************)
(* fetchAnalysisReport.                                                    *)
(***************************************************************************)
\* Variant for C16: the guard looks at the handle only.
CanFetchWithHandle(ds, account, repo) ==
  ds # Undefined

\* The guard: deepSource && userName && repoName.
CanFetch(ds, account, repo) ==
  ds # Undefined /\ account # UndefinedName /\ repo # UndefinedName

\* The result when the guard fails: null, nothing shown.
NotFetched == [ok |-> FALSE, occurrences |-> <<>>, shown |-> {}]

\* Variant for C3: the error names neither the repository nor the account.
fetchAnalysisReportUnnamed(report, repo, account) ==
  IF ~report.data
  THEN [ok |-> FALSE, occurrences |-> <<>>,
        shown |-> {UnableToFetchError(UndefinedName, UndefinedName)}]
  ELSE [ok |-> TRUE, occurrences |-> report.occurrences, shown |-> {}]

\* The function from the resolution of getAllIssuesInRepo on.
fetchAnalysisReport(report, repo, account) ==
  IF ~report.data
  THEN [ok |-> FALSE, occurrences |-> <<>>,
        shown |-> {UnableToFetchError(repo, account)}]
  ELSE [ok |-> TRUE, occurrences |-> report.occurrences, shown |-> {}]

(***************************************************************************)
(* calculateDiagnostics, from the resolution of fetchAnalysisReport on.    *)
(***************************************************************************)
\* Variant for C4: a failed fetch resets the map.
calculateDiagnosticsClearing(map, file, fetched) ==
  LET prepared == prepareDiagnostics(workspaceDirPath, fetched.occurrences)
  IN  IF ~fetched.ok
      THEN [success |-> "false", diagnosticsInFile |-> EmptyMap,
            issuesJson |-> file, shown |-> fetched.shown]
      ELSE [success |-> "true", diagnosticsInFile |-> prepared.map,
            issuesJson |-> [written |-> TRUE, content |-> prepared.json],
            shown |-> fetched.shown \cup {SuccessInfo}]

\* Variant for C5: a successful fetch adds its entries to the map it finds.
calculateDiagnosticsMerging(map, file, fetched) ==
  LET prepared == prepareDiagnostics(workspaceDirPath, fetched.occurrences)
  IN  IF ~fetched.ok
      THEN [success |-> "false", diagnosticsInFile |-> map,
            issuesJson |-> file, shown |-> fetched.shown]
      ELSE [success |-> "true",
            diagnosticsInFile |->
              [k \in (DOMAIN map) \cup (DOMAIN prepared.map) |->
                 IF k \in DOMAIN prepared.map THEN prepared.map[k] ELSE map[k]],
            issuesJson |-> [written |-> TRUE, content |-> prepared.json],
            shown |-> fetched.shown \cup {SuccessInfo}]

\* Variant for C17: issues.json is written only when it does not exist yet.
calculateDiagnosticsKeepingFile(map, file, fetched) ==
  LET prepared == prepareDiagnostics(workspaceDirPath, fetched.occurrences)
  IN  IF ~fetched.ok
      THEN [success |-> "false", diagnosticsInFile |-> map,
            issuesJson |-> file, shown |-> fetched.shown]
      ELSE [success |-> "true", diagnosticsInFile |-> prepared.map,
            issuesJson |-> IF file.written THEN file
                           ELSE [written |-> TRUE, content |-> prepared.json],
            shown |-> fetched.shown \cup {SuccessInfo}]

\* map, file: diagnosticsInFile and issues.json as the function finds them.
calculateDiagnostics(map, file, fetched) ==
  LET prepared == prepareDiagnostics(workspaceDirPath, fetched.occurrences)
  IN  IF ~fetched.ok
      THEN [success |-> "false", diagnosticsInFile |-> map,
            issuesJson |-> file, shown |-> fetched.shown]
      ELSE [success |-> "true", diagnosticsInFile |-> prepared.map,
            issuesJson |-> [written |-> TRUE, content |-> prepared.json],
            shown |-> fetched.shown \cup {SuccessInfo}]

(***************************************************************************)
(* The reaction to calculateDiagnostics in the three branches of the       *)
(* command: the first two drop its result, the prompt branch forgets the   *)
(* token and reports it as incorrect when the result is false.             *)
(***************************************************************************)
\* Variant for C2: the token stays in the cache.
OnCalculatedKeeping(via, success, store) ==
  IF via = "prompt" /\ success = "false"
  THEN [cache |-> store, shown |-> {IncorrectTokenError}]
  ELSE [cache |-> store, shown |-> {}]

OnCalculated(via, success, store) ==
  IF via = "prompt" /\ success = "false"
  THEN [cache |-> MapDelete(store, PatKey), shown |-> {IncorrectTokenError}]
  ELSE [cache |-> store, shown |-> {}]

(***************************************************************************)
(* The active-editor handler: the collection it leaves.                    *)
(***************************************************************************)
NoEditor == [present |-> FALSE, fsPath |-> <<>>]

Editor(file) == [present |-> TRUE, fsPath |-> file]

Editors == {NoEditor} \cup {Editor(f) : f \in EditorFiles}

\* Variant for C7: the collection is not cleared.
onDidChangeActiveTextEditorAdding(collection, map, editor) ==
  IF ~editor.present THEN collection
  ELSE IF MapHas(map, editor.fsPath)
       THEN MapSet(collection, editor.fsPath, map[editor.fsPath])
       ELSE collection

\* Variant for C6: the collection is cleared only when the file has entries.
onDidChangeActiveTextEditorLazy(collection, map, editor) ==
  IF ~editor.present THEN collection
  ELSE IF MapHas(map, editor.fsPath)
       THEN MapSet(EmptyMap, editor.fsPath, map[editor.fsPath])
       ELSE collection

\* Variant for C14: the collection is cleared before the editor is looked at.
onDidChangeActiveTextEditorClearingFirst(collection, map, editor) ==
  IF ~editor.present THEN EmptyMap
  ELSE IF MapHas(map, editor.fsPath)
       THEN MapSet(EmptyMap, editor.fsPath, map[editor.fsPath])
       ELSE EmptyMap

onDidChangeActiveTextEditor(collection, map, editor) ==
  IF ~editor.present THEN collection
  ELSE LET cleared == EmptyMap
       IN  IF MapHas(map, editor.fsPath)
           THEN MapSet(cleared, editor.fsPath, map[editor.fsPath])
           ELSE cleared

(***************************************************************************)
(* Initial state: the module has been loaded, activate has not run.  The   *)
(* cache is what an earlier session left in the extension's storage.       *)
(***************************************************************************)
InitSession ==
  /\ workspaceOpen \in BOOLEAN
  /\ session = "starting"
  /\ resolution = "none"
  /\ deepSource = Undefined
  /\ userName = UndefinedName
  /\ repoName = UndefinedName
  /\ cache \in {EmptyMap} \cup {MapSet(EmptyMap, PatKey, t) : t \in Tokens}
  /\ priorCache = cache
  /\ diagnosticsInFile = EmptyMap
  /\ diagnosticCollection = EmptyMap
  /\ issuesJson = NoFile
  /\ calls = [i \in Invocations |-> NoCall]
  /\ lastFetched = <<>>
  /\ lastWriter = 0
  /\ lastEditor = NoEditor
  /\ unhandled = {}

Init ==
  /\ InitSession
  /\ trInput = <<>>
  /\ trOccurrences = <<>>
  /\ trMaps = <<>>
  /\ rsGit = GitConfig(FALSE, FALSE, <<>>)
  /\ rsInfo = NoRepoInfo
  /\ rsDone = FALSE

(***************************************************************************)
(* activate: throws without a workspace folder; otherwise starts the       *)
(* repository resolution, flushes the cache and registers the handlers.    *)
(***************************************************************************)
\* Variant for C11 and C18: the cache is not flushed.
ActivateKeepingCache ==
  /\ session = "starting"
  /\ IF ~workspaceOpen
     THEN /\ session' = "failed"
          /\ UNCHANGED <<resolution, cache>>
     ELSE /\ session' = "active"
          /\ resolution' = "pending"
          /\ UNCHANGED cache
  /\ UNCHANGED <<workspaceOpen, priorCache, unhandled, deepSource, userName, repoName,
                 diagnosticsInFile, diagnosticCollection, issuesJson, calls,
                 lastFetched, lastWriter, lastEditor, translatorVars, resolverVars>>

Activate ==
  /\ session = "starting"
  /\ IF ~workspaceOpen
     THEN /\ session' = "failed"
          /\ UNCHANGED <<resolution, cache>>
     ELSE /\ session' = "active"
          /\ resolution' = "pending"
          /\ cache' = EmptyMap
  /\ UNCHANGED <<workspaceOpen, priorCache, unhandled, deepSource, userName, repoName,
                 diagnosticsInFile, diagnosticCollection, issuesJson, calls,
                 lastFetched, lastWriter, lastEditor, translatorVars, resolverVars>>

\* getRepoAndUserName(workspaceDirPath).then(...)
ResolveRepo(git) ==
  /\ resolution = "pending"
  /\ resolution' = "done"
  /\ LET repoInfo == getRepoAndUserName(git)
     IN  IF ~repoInfo.found
         THEN UNCHANGED <<userName, repoName>>
         ELSE /\ userName' = repoInfo.userName
              /\ repoName' = repoInfo.repoName
  /\ UNCHANGED <<workspaceOpen, priorCache, unhandled, session, deepSource, cache, diagnosticsInFile,
                 diagnosticCollection, issuesJson, calls, lastFetched, lastWriter,
                 lastEditor, translatorVars, resolverVars>>

\* git fails (checkIsRepo or getConfig rejects): the promise of
\* getRepoAndUserName is rejected; the only reaction attached to it is the
\* fulfilment callback of line 156.
ResolveRepoRejected ==
  /\ resolution = "pending"
  /\ resolution' = "rejected"
  /\ unhandled' = unhandled \cup {"getRepoAndUserName"}
  /\ UNCHANGED <<workspaceOpen, priorCache, session, deepSource, userName,
                 repoName, cache, diagnosticsInFile, diagnosticCollection,
                 issuesJson, calls, lastFetched, lastWriter, lastEditor, translatorVars, resolverVars>>

(***************************************************************************)
(* The end of an invocation: calculateDiagnostics has resolved with        *)
(* `result` in branch `via`, with `store` the cache at that point.         *)
(***************************************************************************)
Settle(i, via, pat, client, result, received, store) ==
  LET after == OnCalculated(via, result.success, store)
  IN  /\ cache' = after.cache
      /\ diagnosticsInFile' = result.diagnosticsInFile
      /\ issuesJson' = result.issuesJson
      /\ lastFetched' = IF result.success = "true" THEN <<received>> ELSE lastFetched
      /\ lastWriter' = IF result.success = "true" THEN i ELSE lastWriter
      /\ calls' = [calls EXCEPT ![i] =
                     [pc |-> "done", via |-> via, pat |-> pat, client |-> client,
                      success |-> result.success,
                      shown |-> result.shown \cup after.shown]]

\* calculateDiagnostics(workspaceDirPath) called in branch `via` with the
\* handle ds and the cache `store`: either the guard of fetchAnalysisReport
\* fails and the invocation ends in this task, or the remote call starts.
Calculate(i, via, ds, store) ==
  IF CanFetch(ds, userName, repoName)
  THEN /\ calls' = [calls EXCEPT ![i] =
                      [pc |-> "fetching", via |-> via,
                       pat |-> IF via = "prompt" THEN ds ELSE Undefined,
                       client |-> ds, success |-> Undefined, shown |-> {}]]
       /\ cache' = store
       /\ UNCHANGED <<diagnosticsInFile, issuesJson, lastFetched, lastWriter>>
  ELSE Settle(i, via, IF via = "prompt" THEN ds ELSE Undefined, Undefined,
              calculateDiagnostics(diagnosticsInFile, issuesJson, NotFetched),
              <<>>, store)

\* The command handler up to its first suspension.
GetAnalysisReport(i) ==
  /\ session = "active"
  /\ calls[i].pc = "idle"
  /\ \A j \in Invocations : j < i => calls[j].pc # "idle"
  /\ IF deepSource # Undefined
     THEN /\ Calculate(i, "handle", deepSource, cache)
          /\ UNCHANGED deepSource
     ELSE IF MapHas(cache, PatKey)
     THEN LET accessToken == cache[PatKey]
          IN  /\ deepSource' = accessToken
              /\ Calculate(i, "cache", accessToken,
                           MapSet(cache, PatKey, accessToken))
     ELSE /\ calls' = [calls EXCEPT ![i] = [NoCall EXCEPT !.pc = "prompting",
                                                         !.via = "prompt"]]
          /\ UNCHANGED <<deepSource, cache, diagnosticsInFile, issuesJson,
                         lastFetched, lastWriter>>
  /\ UNCHANGED <<workspaceOpen, priorCache, unhandled, session, resolution, userName, repoName,
                 diagnosticCollection, lastEditor, translatorVars, resolverVars>>

\* Variant for C12: only a cancelled input box ends the invocation, an empty
\* input is taken for a token.
PromptAnsweredUnlessCancelled(i, pat) ==
  /\ calls[i].pc = "prompting"
  /\ IF pat = Undefined
     THEN /\ calls' = [calls EXCEPT ![i].pc = "done"]
          /\ UNCHANGED <<deepSource, cache, diagnosticsInFile, issuesJson,
                         lastFetched, lastWriter>>
     ELSE /\ deepSource' = pat
          /\ Calculate(i, "prompt", pat, MapSet(cache, PatKey, pat))
  /\ UNCHANGED <<workspaceOpen, priorCache, unhandled, session, resolution, userName, repoName,
                 diagnosticCollection, lastEditor, translatorVars, resolverVars>>

\* getPATFromUser().then((pat) => ...)
PromptAnswered(i, pat) ==
  /\ calls[i].pc = "prompting"
  /\ IF pat = "" \/ pat = Undefined
     THEN /\ calls' = [calls EXCEPT ![i].pc = "done"]
          /\ UNCHANGED <<deepSource, cache, diagnosticsInFile, issuesJson,
                         lastFetched, lastWriter>>
     ELSE /\ deepSource' = pat
          /\ Calculate(i, "prompt", pat, MapSet(cache, PatKey, pat))
  /\ UNCHANGED <<workspaceOpen, priorCache, unhandled, session, resolution, userName, repoName,
                 diagnosticCollection, lastEditor, translatorVars, resolverVars>>

\* getAllIssuesInRepo resolves: the rest of fetchAnalysisReport, of
\* calculateDiagnostics and of the branch that called it.
FetchReturned(i, report) ==
  /\ calls[i].pc = "fetching"
  /\ Settle(i, calls[i].via, calls[i].pat, calls[i].client,
            calculateDiagnostics(diagnosticsInFile, issuesJson,
                                 fetchAnalysisReport(report, repoName, userName)),
            report.occurrences, cache)
  /\ UNCHANGED <<workspaceOpen, priorCache, unhandled, session, resolution, deepSource, userName,
                 repoName, diagnosticCollection, lastEditor, translatorVars, resolverVars>>

\* getAllIssuesInRepo rejects (the request fails): fetchAnalysisReport and
\* calculateDiagnostics are rejected in turn; no branch of the command
\* attaches a rejection handler, and the fulfilment callback of the prompt
\* branch does not run.
FetchRejected(i) ==
  /\ calls[i].pc = "fetching"
  /\ calls' = [calls EXCEPT ![i].pc = "rejected"]
  /\ unhandled' = unhandled \cup {"calculateDiagnostics"}
  /\ UNCHANGED <<workspaceOpen, priorCache, session, resolution, deepSource,
                 userName, repoName, cache, diagnosticsInFile,
                 diagnosticCollection, issuesJson, lastFetched, lastWriter, lastEditor,
                 translatorVars, resolverVars>>

\* The editor host reports a change of the active text editor.
ActiveEditorChanged(editor) ==
  /\ session = "active"
  /\ diagnosticCollection' =
       onDidChangeActiveTextEditor(diagnosticCollection, diagnosticsInFile, editor)
  /\ lastEditor' = editor
  /\ UNCHANGED <<workspaceOpen, priorCache, unhandled, session, resolution, deepSource, userName,
                 repoName, cache, diagnosticsInFile, issuesJson, calls,
                 lastFetched, lastWriter, translatorVars, resolverVars>>

Next ==
  \/ Activate
  \/ \E git \in GitConfigs : ResolveRepo(git)
  \/ ResolveRepoRejected
  \/ \E i \in Invocations : GetAnalysisReport(i)
  \/ \E i \in Invocations, pat \in PromptResults : PromptAnswered(i, pat)
  \/ \E i \in Invocations, report \in AnalysisReports : FetchReturned(i, report)
  \/ \E i \in Invocations : FetchRejected(i)
  \/ \E editor \in Editors : ActiveEditorChanged(editor)

Spec == Init /\ [][Next]_vars

(***************************************************************************)
(* The translator on its own: called up to twice on one list object.       *)
(***************************************************************************)
InitTranslator ==
  /\ workspaceOpen = TRUE
  /\ session = "starting"
  /\ resolution = "none"
  /\ deepSource = Undefined
  /\ userName = UndefinedName
  /\ repoName = UndefinedName
  /\ cache = EmptyMap
  /\ priorCache = EmptyMap
  /\ diagnosticsInFile = EmptyMap
  /\ diagnosticCollection = EmptyMap
  /\ issuesJson = NoFile
  /\ calls = [i \in Invocations |-> NoCall]
  /\ lastFetched = <<>>
  /\ lastWriter = 0
  /\ lastEditor = NoEditor
  /\ unhandled = {}
  /\ trInput \in OccurrenceLists
  /\ trOccurrences = trInput
  /\ trMaps = <<>>
  /\ rsGit = GitConfig(FALSE, FALSE, <<>>)
  /\ rsInfo = NoRepoInfo
  /\ rsDone = FALSE

Translate ==
  /\ Len(trMaps) < 2
  /\ LET prepared == prepareDiagnostics(workspaceDirPath, trOccurrences)
     IN  /\ trMaps' = Append(trMaps, prepared.map)
         /\ trOccurrences' = prepared.occurrences
  /\ UNCHANGED <<trInput, sessionVars, resolverVars>>

NextTranslator == Translate

SpecTranslator == InitTranslator /\ [][NextTranslator]_vars

(***************************************************************************)
(* The resolver on its own: called once on what git reports.  The remote   *)
(* URLs are built from an optional host part, an account, a repository     *)
(* name and what may follow it.                                            *)
(***************************************************************************)
UrlHosts == {<<>>, <<"h", "/">>, <<"h", ":">>}

UrlAccounts == {<<"u">>, <<"u", "-", "x">>, <<"u", ".", "x">>}

UrlRepos == {<<"r">>, <<"r", "_", "x">>}

UrlEndings ==
  { <<>>,
    <<".", "g", "i", "t">>,
    <<".", "g", "i", "t", "x">>,
    <<".", "g", "i", "t", "/", "x">>,
    <<"/">> }

RemoteUrls ==
  {h \o a \o <<"/">> \o r \o e :
     h \in UrlHosts, a \in UrlAccounts, r \in UrlRepos, e \in UrlEndings}

ResolverInputs ==
  {GitConfig(FALSE, FALSE, <<>>), GitConfig(TRUE, FALSE, <<>>)}
    \cup {GitConfig(TRUE, TRUE, url) : url \in RemoteUrls}

InitResolver ==
  /\ workspaceOpen = TRUE
  /\ session = "starting"
  /\ resolution = "none"
  /\ deepSource = Undefined
  /\ userName = UndefinedName
  /\ repoName = UndefinedName
  /\ cache = EmptyMap
  /\ priorCache = EmptyMap
  /\ diagnosticsInFile = EmptyMap
  /\ diagnosticCollection = EmptyMap
  /\ issuesJson = NoFile
  /\ calls = [i \in Invocations |-> NoCall]
  /\ lastFetched = <<>>
  /\ lastWriter = 0
  /\ lastEditor = NoEditor
  /\ unhandled = {}
  /\ trInput = <<>>
  /\ trOccurrences = <<>>
  /\ trMaps = <<>>
  /\ rsGit \in ResolverInputs
  /\ rsInfo = NoRepoInfo
  /\ rsDone = FALSE

Resolve ==
  /\ ~rsDone
  /\ rsInfo' = getRepoAndUserName(rsGit)
  /\ rsDone' = TRUE
  /\ UNCHANGED <<rsGit, sessionVars, translatorVars>>

NextResolver == Resolve

SpecResolver == InitResolver /\ [][NextResolver]_vars

(***************************************************************************)
(* Properties of the command.                                              *)
(***************************************************************************)
\* Invocation i ends in this step.
Ends(i) == calls[i].pc # "done" /\ calls'[i].pc = "done"

\* Invocation i is over, was given a token at the prompt, and its fetch failed.
FreshTokenFailed(i) ==
  /\ calls[i].pc = "done"
  /\ calls[i].via = "prompt"
  /\ calls[i].success = "false"

\* C1: after an invocation in which the user entered a token at the prompt
\* and the fetch failed, the next invocation of the command opens the prompt
\* again instead of fetching with the handle built for the failed token.
C1_NextInvocationPromptsAgain ==
  [][\A i \in Invocations : \A j \in Invocations :
       (/\ j = i + 1
        /\ FreshTokenFailed(i)
        /\ calls[j].pc = "idle"
        /\ calls'[j].pc # "idle")
       => calls'[j].pc = "prompting"]_vars

NoDataReturned(i) ==
  /\ calls[i].pc = "fetching"
  /\ calls'[i].pc = "done"
  /\ calls'[i].success = "false"

\* C3 as stated: when the analysis API returns no data, the error naming the
\* repository and the account is shown and the step changes neither the
\* diagnostic map, the client handle, the repository information nor the
\* cache, in whichever branch the fetch was started.
C3_NoDataChangesNothing ==
  [][\A i \in Invocations :
       NoDataReturned(i)
       => /\ UnableToFetchError(repoName, userName) \in calls'[i].shown
          /\ repoName # UndefinedName /\ userName # UndefinedName
          /\ diagnosticsInFile' = diagnosticsInFile
          /\ deepSource' = deepSource
          /\ userName' = userName /\ repoName' = repoName
          /\ cache' = cache]_vars

\* C3 amended: as above, except that in the prompt branch the step removes
\* the personal-access-token from the cache; in the other two branches the
\* cache is unchanged.
C3_NoDataChangesOnlyFreshToken ==
  [][\A i \in Invocations :
       NoDataReturned(i)
       => /\ UnableToFetchError(repoName, userName) \in calls'[i].shown
          /\ repoName # UndefinedName /\ userName # UndefinedName
          /\ diagnosticsInFile' = diagnosticsInFile
          /\ deepSource' = deepSource
          /\ userName' = userName /\ repoName' = repoName
          /\ cache' = IF calls[i].via = "prompt"
                      THEN MapDelete(cache, PatKey)
                      ELSE cache]_vars

C3_Witness ==
  \E i \in Invocations :
    /\ calls[i].pc = "done"
    /\ calls[i].via = "handle"
    /\ calls[i].client \in Tokens
    /\ calls[i].success = "false"
    /\ UnableToFetchError(repoName, userName) \in calls[i].shown
    /\ MapHas(cache, PatKey)
    /\ diagnosticsInFile # EmptyMap

\* C4: a fetch that fails, because the guard found the handle or the
\* repository information missing or because the service returned no data,
\* leaves the diagnostic map as it was.
C4_FailedFetchKeepsMap ==
  [][\A i \in Invocations :
       (Ends(i) /\ calls'[i].success = "false")
       => diagnosticsInFile' = diagnosticsInFile]_vars

C4_Witness ==
  \E i \in Invocations : \E j \in Invocations :
    /\ i < j
    /\ calls[i].pc = "done" /\ calls[i].success = "true"
    /\ calls[j].pc = "done" /\ calls[j].success = "false"
    /\ Cardinality(DOMAIN diagnosticsInFile) = 2

\* The files the occurrences of a received list belong to.
FilesOf(occurrences) ==
  {PathJoin(workspaceDirPath, occurrences[k].path) : k \in 1..Len(occurrences)}

\* C5: in every state the diagnostic map has an entry for a file exactly when
\* the latest successful fetch reported an occurrence for that file; it is
\* empty before the first successful fetch.
C5_MapMirrorsLatestFetch ==
  IF lastFetched = <<>>
  THEN diagnosticsInFile = EmptyMap
  ELSE \A p \in (DOMAIN diagnosticsInFile) \cup FilesOf(lastFetched[1]) \cup EditorFiles :
         MapHas(diagnosticsInFile, p) <=> p \in FilesOf(lastFetched[1])

C5_Witness ==
  /\ \A i \in Invocations : calls[i].pc = "done" /\ calls[i].success = "true"
  /\ lastFetched # <<>> /\ Len(lastFetched[1]) = 1
  /\ DOMAIN diagnosticsInFile = {<<"repo", "a.py">>}

(***************************************************************************)
(* Properties of the diagnostic collection.                                *)
(***************************************************************************)
\* C6: after an active-editor event for file f the collection holds exactly
\* the map's sequence for f when the map has an entry for f and is empty when
\* it has none; nothing of another file stays in it.
C6_FocusShowsExactlyTheFile ==
  [][\A f \in EditorFiles :
       ActiveEditorChanged(Editor(f))
       => /\ \A g \in DOMAIN diagnosticCollection' : g = f
          /\ MapHas(diagnosticsInFile, f)
               => /\ MapHas(diagnosticCollection', f)
                  /\ diagnosticCollection'[f] = diagnosticsInFile[f]
          /\ ~MapHas(diagnosticsInFile, f) => DOMAIN diagnosticCollection' = {}]_vars

\* The collection was emptied by a move to a file without entries while the
\* map holds entries for other files.
C6_Witness ==
  /\ lastEditor = Editor(<<"repo", "c.py">>)
  /\ diagnosticCollection = EmptyMap
  /\ Cardinality(DOMAIN diagnosticsInFile) = 2
  /\ lastFetched # <<>>

\* C7: in every state the collection holds diagnostics for at most one file.
C7_AtMostOneFileShown ==
  Cardinality(DOMAIN diagnosticCollection) <= 1

\* One file is shown while the map has entries for two.
C7_Witness ==
  /\ lastEditor = Editor(<<"repo", "b.py">>)
  /\ DOMAIN diagnosticCollection = {<<"repo", "b.py">>}
  /\ DOMAIN diagnosticsInFile = {<<"repo", "a.py">>, <<"repo", "b.py">>}
  /\ Len(diagnosticCollection[<<"repo", "b.py">>]) = 2

(***************************************************************************)
(* Properties of the translator.                                           *)
(***************************************************************************)
\* C8: translating the same occurrence list twice, with the same workspace
\* root, yields the same map: the same keys and the same diagnostics per key.
C8_TranslateTwiceSameMap ==
  Len(trMaps) = 2 => trMaps[1] = trMaps[2]

\* The range the conversion rules give for an occurrence.
ExpectedRange(o) ==
  [start |-> [line      |-> o.beginLine - 1,
              character |-> IF o.beginColumn > 0 THEN o.beginColumn - 1 ELSE 0],
   end   |-> [line      |-> o.endLine - 1,
              character |-> o.endColumn]]

\* The occurrences of the list that belong to file `key`, in list order.
OccurrencesFor(occurrences, key) ==
  SelectSeq(occurrences, LAMBDA o : PathJoin(workspaceDirPath, o.path) = key)

\* C9: every occurrence has, in the entry of its file, a diagnostic with its
\* title whose range starts at (beginLine - 1, beginColumn - 1 when
\* beginColumn > 0, else 0) and ends at (endLine - 1, endColumn); and every
\* diagnostic of the map is such a diagnostic of an occurrence of its file.
C9_RangeConversion ==
  Len(trMaps) >= 1 =>
    LET m == trMaps[1]
    IN  /\ \A k \in 1..Len(trInput) :
             LET o   == trInput[k]
                 key == PathJoin(workspaceDirPath, o.path)
             IN  /\ MapHas(m, key)
                 /\ \E n \in 1..Len(m[key]) :
                      /\ m[key][n].message = o.issue.title
                      /\ m[key][n].range = ExpectedRange(o)
        /\ \A key \in DOMAIN m : \A n \in 1..Len(m[key]) :
             \E k \in 1..Len(trInput) :
               /\ PathJoin(workspaceDirPath, trInput[k].path) = key
               /\ m[key][n].message = trInput[k].issue.title
               /\ m[key][n].range = ExpectedRange(trInput[k])

\* A list with a begin column of 0 and a positive one has been translated.
C9_Witness ==
  /\ Len(trMaps) >= 1
  /\ \E k \in 1..Len(trInput) : trInput[k].beginColumn = 0
  /\ \E k \in 1..Len(trInput) :
       trInput[k].beginColumn > 0 /\ trInput[k].endColumn > 0

RECURSIVE TotalDiagnostics(_, _)
TotalDiagnostics(m, keys) ==
  IF keys = {} THEN 0
  ELSE LET key == CHOOSE x \in keys : TRUE
       IN  Len(m[key]) + TotalDiagnostics(m, keys \ {key})

\* C10: the entry of every file holds as many diagnostics as the list has
\* occurrences for the file, the n-th of them made from the n-th of those
\* occurrences, and the map holds as many diagnostics as the list has
\* occurrences.
C10_OneDiagnosticPerOccurrence ==
  Len(trMaps) >= 1 =>
    LET m == trMaps[1]
    IN  /\ DOMAIN m = FilesOf(trInput)
        /\ \A key \in DOMAIN m :
             LET mine == OccurrencesFor(trInput, key)
             IN  /\ Len(m[key]) = Len(mine)
                 /\ \A n \in 1..Len(mine) :
                      /\ m[key][n].message = mine[n].issue.title
                      /\ m[key][n].range.start.line = mine[n].beginLine - 1
                      /\ m[key][n].severity = "Error"
        /\ TotalDiagnostics(m, DOMAIN m) = Len(trInput)

\* Two occurrences of one file, reported under two spellings of its path,
\* have been translated into one entry.
C10_Witness ==
  /\ Len(trMaps) >= 1
  /\ Len(trInput) = 2
  /\ trInput[1].path # trInput[2].path
  /\ trInput[1].issue.title # trInput[2].issue.title
  /\ DOMAIN trMaps[1] = {<<"repo", "a.py">>}
  /\ Len(trMaps[1][<<"repo", "a.py">>]) = 2

(***************************************************************************)
(* Properties of a session.                                                *)
(***************************************************************************)
\* C11: whatever token the earlier session left in the cache, once activate
\* has run and until the command is first invoked the cache holds no token
\* and there is no client handle; the first invocation of the command
\* therefore goes to the prompt.
C11_SessionStartsUnauthenticated ==
  /\ (session = "active" /\ calls[1].pc = "idle")
       => (~MapHas(cache, PatKey) /\ deepSource = Undefined)
  /\ calls[1].pc # "idle" => calls[1].via = "prompt"

\* The earlier session left a token and the first invocation is at the prompt.
C11_Witness ==
  /\ MapHas(priorCache, PatKey)
  /\ session = "active"
  /\ calls[1].pc = "prompting"
  /\ ~MapHas(cache, PatKey)

\* C12: when the prompt of an invocation resolves to nothing (cancelled, or
\* left empty) the invocation ends there: nothing is shown, no remote call is
\* made, and the client handle, the cache, the diagnostic map, issues.json and
\* the diagnostic collection are what they were.
C12_CancelledPromptChangesNothing ==
  [][\A i \in Invocations :
       (PromptAnswered(i, "") \/ PromptAnswered(i, Undefined))
       => /\ calls'[i].pc = "done"
          /\ calls'[i].shown = {}
          /\ calls'[i].client = Undefined
          /\ calls'[i].success = Undefined
          /\ \A j \in Invocations : j # i => calls'[j] = calls[j]
          /\ deepSource' = deepSource
          /\ cache' = cache
          /\ diagnosticsInFile' = diagnosticsInFile
          /\ issuesJson' = issuesJson
          /\ diagnosticCollection' = diagnosticCollection
          /\ userName' = userName /\ repoName' = repoName]_vars

\* The first prompt was dismissed: the invocation is over without a branch
\* result, and there is still neither a handle nor a stored token.
C12_Witness ==
  /\ calls[1].pc = "done"
  /\ calls[1].via = "prompt"
  /\ calls[1].pat = Undefined
  /\ calls[1].success = Undefined
  /\ calls[1].shown = {}
  /\ deepSource = Undefined
  /\ ~MapHas(cache, PatKey)

\* C13: no failure of a remote call escapes: no promise of the repository
\* lookup or of the analysis fetch is rejected without a handler, and an
\* invocation whose remote call failed has shown an error.
C13_RemoteFailuresAreCaught ==
  /\ unhandled = {}
  /\ \A i \in Invocations :
       calls[i].pc = "rejected"
         => \E n \in calls[i].shown : n.severity = "error"

LastSlash(url) ==
  LET at == {k \in 1..Len(url) : url[k] = "/"}
  IN  IF at = {} THEN 0 ELSE CHOOSE k \in at : \A j \in at : j <= k

\* A non-empty run of word characters and hyphens.
IsName(x) == x # <<>> /\ \A k \in 1..Len(x) : x[k] \in WordChars

\* The rule of C15: drop a ".git" suffix when there is one; the URL resolves
\* when its last two path segments are names.
NamedByLastTwoSegments(url) ==
  LET n        == Len(url)
      stripped == IF n >= 4 /\ SubSeq(url, n - 3, n) = <<".", "g", "i", "t">>
                  THEN SubSeq(url, 1, n - 4) ELSE url
      k        == LastSlash(stripped)
      repo     == SubSeq(stripped, k + 1, Len(stripped))
      front    == SubSeq(stripped, 1, k - 1)
      account  == SubSeq(front, LastSlash(front) + 1, Len(front))
  IN  IF k > 0 /\ IsName(repo) /\ IsName(account)
      THEN [found |-> TRUE, userName |-> account, repoName |-> repo]
      ELSE NoRepoInfo

\* C15: for a repository with an origin URL the resolver returns the account
\* and the repository name when the last two path segments of the URL, before
\* an optional ".git", are made of word characters and hyphens, and null for
\* every other URL.
C15_ResolvesLastTwoSegments ==
  (rsDone /\ rsGit.isRepo /\ rsGit.hasOrigin)
    => rsInfo = NamedByLastTwoSegments(rsGit.value)

(***************************************************************************)
(* Properties of the fetch step.                                           *)
(***************************************************************************)
\* Invocation i reaches calculateDiagnostics in this step: it leaves the
\* command handler through one of the first two branches, or its prompt was
\* answered with a token.
ReachesFetch(i) ==
  /\ calls[i].pc \in {"idle", "prompting"}
  /\ calls'[i].pc \in {"fetching", "done"}
  /\ ~(calls'[i].pc = "done" /\ calls'[i].success = Undefined)

\* C16: the remote call of an invocation starts only in a step in which the
\* client handle, the account and the repository name are all set, and it is
\* made on that handle; when the account or the repository name is not set,
\* as while the repository resolution is still pending, the fetch step ends at
\* once with failure and without a remote call.
C16_FetchNeedsHandleAndRepoInfo ==
  [][\A i \in Invocations :
       /\ (calls[i].client = Undefined /\ calls'[i].client # Undefined)
            => /\ deepSource' # Undefined
               /\ calls'[i].client = deepSource'
               /\ userName # UndefinedName
               /\ repoName # UndefinedName
       /\ (ReachesFetch(i)
           /\ (deepSource' = Undefined \/ userName = UndefinedName
               \/ repoName = UndefinedName))
            => /\ calls'[i].pc = "done"
               /\ calls'[i].success = "false"
               /\ calls'[i].client = Undefined]_vars

\* A token was typed while the resolution was pending: the invocation is over,
\* failed, and made no remote call; a later one found the repository resolved
\* and made its call.
C16_Witness ==
  \E i \in Invocations : \E j \in Invocations :
    /\ i < j
    /\ calls[i].pc = "done" /\ calls[i].via = "prompt"
    /\ calls[i].pat \in Tokens
    /\ calls[i].success = "false" /\ calls[i].client = Undefined
    /\ calls[j].pc = "fetching" /\ calls[j].client \in Tokens
    /\ userName # UndefinedName

\* C17: whatever fetches overlap, once a fetch has succeeded the diagnostic
\* map and issues.json both come from the one list received by the fetch
\* whose successful response came last, whichever invocation started first:
\* the map is the translation of that list and the file holds that list with
\* its paths rewritten; before the first success there is neither.
C17_LastWriterWins ==
  IF lastWriter = 0
  THEN diagnosticsInFile = EmptyMap /\ issuesJson = NoFile /\ lastFetched = <<>>
  ELSE /\ calls[lastWriter].pc = "done"
       /\ calls[lastWriter].success = "true"
       /\ lastFetched # <<>>
       /\ LET prepared == prepareDiagnostics(workspaceDirPath, lastFetched[1])
          IN  /\ diagnosticsInFile = prepared.map
              /\ issuesJson = [written |-> TRUE, content |-> prepared.json]

\* The second invocation fetched with the handle the first had built and its
\* response came first; the response of the first came last and is what the
\* map and the file hold.
C17_Witness ==
  /\ lastWriter = 1
  /\ calls[1].success = "true"
  /\ calls[2].pc = "done"
  /\ calls[2].via = "handle"
  /\ calls[2].success = "true"
  /\ Cardinality(DOMAIN diagnosticsInFile) = 2
  /\ issuesJson.written /\ Len(issuesJson.content) = 3

\* C18: in every state after activation, a personal-access-token in the
\* cache implies that the client handle exists; so no invocation ever takes
\* the branch that builds the handle from the cached token.
C18_StoredTokenImpliesHandle ==
  /\ (session = "active" /\ MapHas(cache, PatKey)) => deepSource # Undefined
  /\ \A i \in Invocations : calls[i].via # "cache"

\* The earlier session left a token, a token typed in this session is stored
\* with its handle, and a later invocation went straight to the handle.
C18_Witness ==
  /\ MapHas(priorCache, PatKey)
  /\ session = "active"
  /\ MapHas(cache, PatKey)
  /\ deepSource \in Tokens
  /\ \E i \in Invocations : calls[i].pc = "done" /\ calls[i].via = "handle"

\* C19: under any interleaving of invocations, the step that removes the
\* personal-access-token from the cache of the running session ends an
\* invocation of the prompt branch whose fetch failed, and the token it
\* removes is the one that invocation was given.
C19_ForgetsOnlyTheFailedToken ==
  [][(session = "active" /\ MapHas(cache, PatKey) /\ ~MapHas(cache', PatKey))
       => \E i \in Invocations :
            /\ Ends(i)
            /\ calls'[i].via = "prompt"
            /\ calls'[i].success = "false"
            /\ calls'[i].pat = cache[PatKey]]_vars

\* C20: an invocation has shown "Incorrect personal access token." only if
\* its remote call was made with the token it was given; a token typed while
\* the account or the repository name is not set is never reported incorrect.
C20_IncorrectOnlyAfterRemoteCall ==
  \A i \in Invocations :
    IncorrectTokenError \in calls[i].shown
      => (calls[i].client # Undefined /\ calls[i].client = calls[i].pat)

====
